---- MODULE Spec2Model ----
(***************************************************************************)
(* Model of the two Streamlit dashboards of the repository:                *)
(*   netflix_max_chartier_dashboard.py  (the "engagement" dashboard)       *)
(*   netflix_story_dashboard.py         (the "story" dashboard)            *)
(* A run of main() is a linear script: load_data, then one aggregate per   *)
(* section.  The state holds the CSV tables, the tables in memory, the     *)
(* position of the script (pc), the checkbox and the aggregates computed   *)
(* so far (out); alt is the watch history of a second run, used where two *)
(* runs are compared.  DataFrames are sequences of records; a missing cell of a *)
(* text or flag column is NaN, a numeric cell that may be missing is <<>>  *)
(* (missing) or <<v>>.  Fractions are kept exact as <<numerator,           *)
(* denominator>> or as integers scaled by a stated factor.                 *)
(* page lists what the current run has put on the page so far (and its     *)
(* calls of load_data), reads counts how often the process has read the    *)
(* CSV files, and prev holds the aggregates of the run before the current  *)
(* one.                                                                    *)
(***************************************************************************)
EXTENDS Integers, Sequences, FiniteSets, TLC

VARIABLES app, csv, alt, cache, reads, users, watch, movies, recs, exclude_outliers, pc,
          out, page, prev

vars == <<app, csv, alt, cache, reads, users, watch, movies, recs, exclude_outliers, pc,
          out, page, prev>>

(***************************************************************************)
(* Bounds of the model.                                                    *)
(***************************************************************************)
MaxWatch == 4
MaxOther == 1
MaxUsers == 3
MaxRecs == 2
MaxMovies == 2
MaxJoinWatch == 2
MaxStoryUsers == 4
MaxCoerce == 2
MaxRated == 2
MaxBracketUsers == 3

(***************************************************************************)
(* Cell values.                                                            *)
(***************************************************************************)
NaN == "NaN"
PyTrue == "bool:True"
PyFalse == "bool:False"
Flags == {PyTrue, PyFalse, NaN}

\* device_type and genre_primary values in the order pandas sorts group keys
Devices == <<"Mobile", "TV">>
Genres == <<"Action", "Drama">>
Plans == <<"Basic", "Premium">>
Versions == <<"v1", "v2">>
RecTypes == <<"new_release", "similar">>

Range(s) == {s[i] : i \in DOMAIN s}

\* a numeric CSV cell: a number, an empty cell, or text that is no number
Num(n) == [k |-> "num", v |-> n]
Empty == [k |-> "na", v |-> 0]
Bad == [k |-> "bad", v |-> 0]

\* variant of ToNumeric: what does not parse becomes 0
ToNumericZero(c) == IF c.k = "num" THEN <<c.v>> ELSE <<0>>

\* pd.to_numeric(errors="coerce"): what does not parse becomes missing
ToNumeric(c) == IF c.k = "num" THEN <<c.v>> ELSE <<>>

\* Series.fillna(d) on one cell
FillNa(c, d) == IF c = <<>> THEN <<d>> ELSE c

RECURSIVE SumSeq(_)
SumSeq(s) == IF s = <<>> THEN 0 ELSE Head(s) + SumSeq(Tail(s))

\* the column col of table t, as a sequence
Column(t, col) == [i \in DOMAIN t |-> t[i][col]]

\* the non-missing values of a numeric column that may hold missing cells
RECURSIVE DropNaCells(_)
DropNaCells(s) ==
    IF s = <<>> THEN <<>>
    ELSE IF Head(s) = <<>> THEN DropNaCells(Tail(s))
    ELSE <<Head(s)[1]>> \o DropNaCells(Tail(s))

\* rows of t whose column col equals key: one group of t.groupby(col)
Group(t, col, key) == SelectSeq(t, LAMBDA r : r[col] = key)

\* group keys of t.groupby(col), in sorted order; rows with a missing key belong to no group
GroupKeys(t, col, order) == SelectSeq(order, LAMBDA k : \E i \in DOMAIN t : t[i][col] = k)

Sorted(s) == SortSeq(s, LAMBDA a, b : a < b)

(***************************************************************************)
(* Series.quantile(k/4) with linear interpolation, times 4.                *)
(* position (n-1)*k/4 in the sorted values, interpolated between the two   *)
(* neighbours.                                                             *)
(***************************************************************************)
Quantile4(vals, k) ==
    LET s == Sorted(vals)
        n == Len(s)
        p == (n - 1) * k
        i == (p \div 4) + 1
        r == p % 4
    IN  IF r = 0 THEN 4 * s[i] ELSE 4 * s[i] + r * (s[i + 1] - s[i])

(***************************************************************************)
(* load_data of the engagement dashboard.                                  *)
(***************************************************************************)
LoadWatch(t) ==
    [i \in DOMAIN t |->
        [idx |-> i - 1,
         user_id |-> t[i].user_id,
         movie_id |-> t[i].movie_id,
         device_type |-> t[i].device_type,
         watch_duration_minutes |-> FillNa(ToNumeric(t[i].watch_duration_minutes), 0)[1],
         user_rating |-> t[i].user_rating]]

LoadUsers(t) ==
    [i \in DOMAIN t |->
        [idx |-> i - 1,
         user_id |-> t[i].user_id,
         subscription_plan |-> t[i].subscription_plan,
         monthly_spend |-> ToNumeric(t[i].monthly_spend),
         age |-> ToNumeric(t[i].age),
         is_active |-> t[i].is_active]]

LoadMovies(t) ==
    [i \in DOMAIN t |->
        [idx |-> i - 1, movie_id |-> t[i].movie_id, genre_primary |-> t[i].genre_primary]]

LoadRecs(t) ==
    [i \in DOMAIN t |->
        [idx |-> i - 1,
         recommendation_id |-> t[i].recommendation_id,
         algorithm_version |-> t[i].algorithm_version,
         recommendation_type |-> t[i].recommendation_type,
         was_clicked |-> t[i].was_clicked]]

load_data(files) ==
    [users |-> LoadUsers(files.users), watch |-> LoadWatch(files.watch),
     movies |-> LoadMovies(files.movies), recs |-> LoadRecs(files.recs)]

(***************************************************************************)
(* Aggregates of the engagement dashboard.                                 *)
(***************************************************************************)
\* users["user_id"].nunique()
total_users(u) == Cardinality({u[i].user_id : i \in DOMAIN u} \ {NaN})

\* watch["watch_duration_minutes"].sum() / 60.0, as <<minutes, 60>>
total_watch_hours(w) == <<SumSeq(Column(w, "watch_duration_minutes")), 60>>

\* users[users.get("is_active") == True].shape[0]
active_subs(u) == Len(SelectSeq(u, LAMBDA r : r.is_active = PyTrue))

\* groupby('subscription_plan')['is_active'].value_counts().unstack().fillna(0):
\* per plan the number of True and of False flags; missing flags are not counted,
\* and a plan with no counted flag has no row
FlagCount(u, plan, flag) ==
    Len(SelectSeq(u, LAMBDA r : r.subscription_plan = plan /\ r.is_active = flag))

retention(u) ==
    LET present == {p \in Range(Plans) :
                        FlagCount(u, p, PyTrue) + FlagCount(u, p, PyFalse) > 0}
    IN  [p \in present |->
            [true |-> FlagCount(u, p, PyTrue), false |-> FlagCount(u, p, PyFalse)]]

\* variant of RateOfRow: active over inactive
RateOfRowOdds(x) == <<x.true, x.false>>

\* x.get(True,0)/(x.get(True,0)+x.get(False,0)) per row, as <<numerator, denominator>>
RateOfRow(x) == <<x.true, x.true + x.false>>

retention_rate(u) == [p \in DOMAIN retention(u) |-> RateOfRow(retention(u)[p])]

\* watch.merge(movies[['movie_id','genre_primary']], on='movie_id', how='left'):
\* one row per matching movies row, or one row with a missing genre when none matches
JoinRow(r, m) ==
    LET hits == SelectSeq(m, LAMBDA x : x.movie_id = r.movie_id)
    IN  IF hits = <<>>
        THEN <<[movie_id |-> r.movie_id, genre_primary |-> NaN,
                watch_duration_minutes |-> r.watch_duration_minutes,
                user_rating |-> r.user_rating]>>
        ELSE [j \in DOMAIN hits |->
                [movie_id |-> r.movie_id, genre_primary |-> hits[j].genre_primary,
                 watch_duration_minutes |-> r.watch_duration_minutes,
                 user_rating |-> r.user_rating]]

RECURSIVE MergeLeft(_, _)
MergeLeft(w, m) ==
    IF w = <<>> THEN <<>> ELSE JoinRow(Head(w), m) \o MergeLeft(Tail(w), m)

\* t.groupby(col)["watch_duration_minutes"].sum().reset_index(): one row per group key
GroupSum(t, col, order) ==
    LET keys == GroupKeys(t, col, order)
    IN  [i \in DOMAIN keys |->
            [key |-> keys[i],
             watch_duration_minutes |->
                SumSeq(Column(Group(t, col, keys[i]), "watch_duration_minutes"))]]

\* sort_values("watch_duration_minutes", ascending=False); equal values keep their order
RECURSIVE InsertDesc(_, _)
InsertDesc(s, r) ==
    IF s = <<>> THEN <<r>>
    ELSE IF Head(s).watch_duration_minutes >= r.watch_duration_minutes
         THEN <<Head(s)>> \o InsertDesc(Tail(s), r)
         ELSE <<r>> \o s

RECURSIVE SortDesc(_)
SortDesc(s) ==
    IF s = <<>> THEN <<>> ELSE InsertDesc(SortDesc(SubSeq(s, 1, Len(s) - 1)), s[Len(s)])

genre_stats(w, m) == GroupSum(MergeLeft(w, m), "genre_primary", Genres)

genre_eng(w, m) == SortDesc(GroupSum(MergeLeft(w, m), "genre_primary", Genres))

device_eng(w) == SortDesc(GroupSum(w, "device_type", Devices))

\* Series.astype(str) on one cell: a bool becomes its name, a missing cell 'nan',
\* a string stays
AsTypeStr(c) ==
    IF c = PyTrue THEN "True"
    ELSE IF c = PyFalse THEN "False"
    ELSE IF c = NaN THEN "nan"
    ELSE c

ClickedAsStr(r) == [t \in DOMAIN r |-> [r[t] EXCEPT !.was_clicked = AsTypeStr(@)]]

\* (x=='True').sum()
Clicks(g) == Len(SelectSeq(g, LAMBDA r : r.was_clicked = "True"))

\* recs.groupby('algorithm_version')['was_clicked'].apply(lambda x: (x=='True').sum()/len(x))
ctr(r) ==
    LET keys == GroupKeys(r, "algorithm_version", Versions)
    IN  [i \in DOMAIN keys |->
            LET g == Group(r, "algorithm_version", keys[i])
            IN  [algorithm_version |-> keys[i], CTR |-> <<Clicks(g), Len(g)>>]]

\* ("recommendation_id","count"): the cells of the group that are not missing
Impressions(g) == Len(SelectSeq(g, LAMBDA r : r.recommendation_id # NaN))

\* rec_summary: impressions, clicks and ctr = clicks / impressions per recommendation_type;
\* a denominator 0 stands for the inf or NaN of the float division
rec_summary(r) ==
    LET keys == GroupKeys(r, "recommendation_type", RecTypes)
    IN  [i \in DOMAIN keys |->
            LET g == Group(r, "recommendation_type", keys[i])
            IN  [recommendation_type |-> keys[i],
                 impressions |-> Impressions(g),
                 clicks |-> Clicks(g),
                 ctr |-> <<Clicks(g), Impressions(g)>>]]

\* watch.groupby("user_id")["watch_duration_minutes"].sum()
watch_user(w, ids) == GroupSum(w, "user_id", ids)

\* users["monthly_spend"].dropna().mean(), as <<sum, count>>
avg_spend(u) ==
    LET known == DropNaCells(Column(u, "monthly_spend"))
    IN  <<SumSeq(known), Len(known)>>

\* watch.groupby('user_id')['watch_duration_minutes'].mean() for one user, as <<sum, count>>;
\* missing for a user with no watch event
avg_watch(w, id) ==
    LET g == Group(w, "user_id", id)
    IN  IF id = NaN \/ g = <<>> THEN <<>>
        ELSE <<<<SumSeq(Column(g, "watch_duration_minutes")), Len(g)>>>>

\* engagement = users.copy(); engagement['avg_watch_duration'] = user_id.map(avg_watch)
engagement(u, w) ==
    [i \in DOMAIN u |->
        [user_id |-> u[i].user_id, subscription_plan |-> u[i].subscription_plan,
         monthly_spend |-> u[i].monthly_spend,
         avg_watch_duration |-> avg_watch(w, u[i].user_id)]]

\* variant of watch_rated: no row is dropped
watch_rated_all(w) == w

\* watch.dropna(subset=["user_rating"])
watch_rated(w) == SelectSeq(w, LAMBDA r : r.user_rating # <<>>)

\* t.groupby(col)["user_rating"].mean().reset_index(): per group key the mean of the
\* ratings as <<sum, count>>
GroupMeanRating(t, col, order) ==
    LET keys == GroupKeys(t, col, order)
    IN  [i \in DOMAIN keys |->
            LET v == DropNaCells(Column(Group(t, col, keys[i]), "user_rating"))
            IN  [key |-> keys[i], user_rating |-> <<SumSeq(v), Len(v)>>]]

device_sat(w) == GroupMeanRating(watch_rated(w), "device_type", Devices)

\* users.merge(watch_rated[["user_id","user_rating"]], on="user_id", how="inner")
RECURSIVE MergeInner(_, _)
MergeInner(u, wr) ==
    IF u = <<>> THEN <<>>
    ELSE LET hits == SelectSeq(wr, LAMBDA x : x.user_id = Head(u).user_id)
         IN  [j \in DOMAIN hits |->
                [user_id |-> Head(u).user_id,
                 subscription_plan |-> Head(u).subscription_plan,
                 user_rating |-> hits[j].user_rating]]
             \o MergeInner(Tail(u), wr)

plan_sat(u, w) == GroupMeanRating(MergeInner(u, watch_rated(w)), "subscription_plan", Plans)

\* watch_genre.dropna(subset=["user_rating"]).groupby("genre_primary")["user_rating"].mean()
genre_sat(w, m) == GroupMeanRating(watch_rated(MergeLeft(w, m)), "genre_primary", Genres)

(***************************************************************************)
(* Device session durations and the per-device outlier trim.               *)
(***************************************************************************)
\* watch[["device_type", "watch_duration_minutes"]].dropna()
sess_of(w) ==
    LET kept == SelectSeq(w, LAMBDA r : r.device_type # NaN)
    IN  [i \in DOMAIN kept |->
            [idx |-> kept[i].idx, device_type |-> kept[i].device_type,
             watch_duration_minutes |-> kept[i].watch_duration_minutes]]

\* the fence of a group, times 8: lower = q1 - 1.5*iqr, upper = q3 + 1.5*iqr
Fence8(group) ==
    LET v == Column(group, "watch_duration_minutes")
        q1 == Quantile4(v, 1)
        q3 == Quantile4(v, 3)
        iqr == q3 - q1
    IN  [lower |-> 2 * q1 - 3 * iqr, upper |-> 2 * q3 + 3 * iqr]

\* variant of _iqr_filter: the upper fence itself is excluded
_iqr_filter_strict(group) ==
    LET f == Fence8(group)
    IN  SelectSeq(group, LAMBDA r : 8 * r.watch_duration_minutes >= f.lower
                                    /\ 8 * r.watch_duration_minutes < f.upper)

_iqr_filter(group) ==
    LET f == Fence8(group)
    IN  SelectSeq(group, LAMBDA r : 8 * r.watch_duration_minutes >= f.lower
                                    /\ 8 * r.watch_duration_minutes <= f.upper)

\* sess.groupby("device_type", group_keys=False).apply(_iqr_filter): the filtered
\* groups, one after the other in key order
RECURSIVE ApplyGroups(_, _)
ApplyGroups(s, keys) ==
    IF keys = <<>> THEN <<>>
    ELSE _iqr_filter(Group(s, "device_type", Head(keys))) \o ApplyGroups(s, Tail(keys))

\* variant of sess_f_of: the trim is applied whatever the checkbox says
sess_f_always(s, exclude) == ApplyGroups(s, GroupKeys(s, "device_type", Devices))

\* variant of sess_f_of: the filter applied to the whole table, without the groupby
sess_f_ungrouped(s, exclude) ==
    IF exclude /\ s # <<>> THEN _iqr_filter(s) ELSE s

sess_f_of(s, exclude) ==
    IF exclude THEN ApplyGroups(s, GroupKeys(s, "device_type", Devices)) ELSE s

\* t.groupby("device_type")["watch_duration_minutes"].quantile(k/4), times 4
GroupQuantile4(t, k) ==
    LET keys == GroupKeys(t, "device_type", Devices)
    IN  [d \in Range(keys) |->
            Quantile4(Column(Group(t, "device_type", d), "watch_duration_minutes"), k)]

(***************************************************************************)
(* Input tables.  Rows are drawn from a list of row values and a table is  *)
(* a list of at most n of them, enumerated up to the order of its rows     *)
(* (no modelled aggregate depends on the order of the input rows).         *)
(***************************************************************************)
RECURSIVE NonDec(_, _)
NonDec(k, n) ==
    IF n = 0 THEN {<<>>}
    ELSE UNION {{Append(s, j) : j \in (IF s = <<>> THEN 1 ELSE s[Len(s)]) .. k} :
                    s \in NonDec(k, n - 1)}

Tables(rows, n) ==
    UNION {{[i \in DOMAIN s |-> rows[s[i]]] : s \in NonDec(Len(rows), m)} : m \in 0 .. n}

DeviceCells == <<"Mobile", "TV", NaN>>
DurationCells == <<Num(-4), Num(0), Num(1), Num(5)>>

WatchRow(u, m, d, c) ==
    [user_id |-> u, movie_id |-> m, device_type |-> d,
     watch_duration_minutes |-> c, user_rating |-> <<>>]

SessionRows ==
    [j \in 1 .. Len(DeviceCells) * Len(DurationCells) |->
        WatchRow("u1", "m1", DeviceCells[((j - 1) \div Len(DurationCells)) + 1],
                 DurationCells[((j - 1) % Len(DurationCells)) + 1])]

UserRow(u, p, s, a) ==
    [user_id |-> u, subscription_plan |-> p, monthly_spend |-> s, age |-> Num(30),
     is_active |-> a]

MovieRow(m, g) == [movie_id |-> m, genre_primary |-> g]

RecRow(i, v, t, c) ==
    [recommendation_id |-> i, algorithm_version |-> v, recommendation_type |-> t,
     was_clicked |-> c]

SampleUsers == <<UserRow("u1", "Basic", Num(8), PyTrue), UserRow("u2", "Premium", Num(16), PyFalse)>>
SampleWatch == <<WatchRow("u1", "m1", "TV", Num(30)), WatchRow("u2", "m2", "Mobile", Num(10))>>
SampleMovies == <<MovieRow("m1", "Action"), MovieRow("m2", "Drama")>>
SampleRecs == <<RecRow("r1", "v1", "similar", PyTrue), RecRow("r2", "v2", "similar", PyFalse)>>

UserIds == <<"u1", "u2", "u3", "u4", "u5", "u6">>

(***************************************************************************)
(* A run of main() of the engagement dashboard, section by section.        *)
(***************************************************************************)
NoOutput == <<>>

\* what a run puts on the page, and its calls of load_data
Header(t) == [kind |-> "header", text |-> t]
Subheader(t) == [kind |-> "subheader", text |-> t]
Kpi(t) == [kind |-> "kpi", text |-> t]
Chart(f) == [kind |-> "plotly_chart", text |-> f]
Dataframe(f) == [kind |-> "dataframe", text |-> f]
Info(t) == [kind |-> "info", text |-> t]
Metric(t) == [kind |-> "metric", text |-> t]
Call(f) == [kind |-> "call", text |-> f]

Show(elements) == page' = page \o elements

Section(from, to, results) ==
    /\ app = "engagement"
    /\ pc = from
    /\ pc' = to
    /\ out' = results @@ out

\* variant of LoadData: every call reads the files
LoadDataUncached ==
    /\ app = "engagement"
    /\ pc = "load"
    /\ cache' = <<load_data(csv)>>
    /\ reads' = reads + 1
    /\ users' = cache'[1].users
    /\ watch' = cache'[1].watch
    /\ movies' = cache'[1].movies
    /\ recs' = cache'[1].recs
    /\ pc' = "kpis"
    /\ Show(<<Call("load_data")>>)
    /\ UNCHANGED <<app, csv, alt, exclude_outliers, out, prev>>

\* users, watch, movies, recs = load_data(): st.cache_data reads the files on the first
\* call and hands out a copy of the cached tables on every call
LoadData ==
    /\ app = "engagement"
    /\ pc = "load"
    /\ cache' = IF cache = <<>> THEN <<load_data(csv)>> ELSE cache
    /\ reads' = IF cache = <<>> THEN reads + 1 ELSE reads
    /\ users' = cache'[1].users
    /\ watch' = cache'[1].watch
    /\ movies' = cache'[1].movies
    /\ recs' = cache'[1].recs
    /\ pc' = "kpis"
    /\ Show(<<Call("load_data")>>)
    /\ UNCHANGED <<app, csv, alt, exclude_outliers, out, prev>>

KPIs ==
    /\ Section("kpis", "retention",
               [total_users |-> total_users(users),
                total_watch_hours |-> total_watch_hours(watch),
                avg_spend |-> avg_spend(users),
                active_subs |-> active_subs(users)])
    /\ Show(<<Kpi("Users"), Kpi("Watch Hours"), Kpi("Avg Monthly Spend"),
              Kpi("Active Subscriptions")>>)
    /\ UNCHANGED <<app, csv, alt, cache, reads, users, watch, movies, recs, exclude_outliers, prev>>

RetentionByPlan ==
    /\ Section("retention", "spend_engagement", [retention_rate |-> retention_rate(users)])
    /\ Show(<<Header("Retention by Subscription Plan"), Chart("fig1")>>)
    /\ UNCHANGED <<app, csv, alt, cache, reads, users, watch, movies, recs, exclude_outliers, prev>>

SpendVsEngagement ==
    /\ Section("spend_engagement", "genre", [engagement |-> engagement(users, watch)])
    /\ Show(<<Header("Monthly Spend vs. Engagement by Device"), Chart("fig2")>>)
    /\ UNCHANGED <<app, csv, alt, cache, reads, users, watch, movies, recs, exclude_outliers, prev>>

GenrePopularity ==
    /\ Section("genre", "ctr_version", [genre_stats |-> genre_stats(watch, movies)])
    /\ Show(<<Header("Genre Popularity and Satisfaction"), Chart("fig3")>>)
    /\ UNCHANGED <<app, csv, alt, cache, reads, users, watch, movies, recs, exclude_outliers, prev>>

\* variant of CtrByAlgorithmVersion: the table with the strings is saved to
\* recommendation_logs.csv
CtrByAlgorithmVersionSaved ==
    /\ recs' = ClickedAsStr(recs)
    /\ csv' = [csv EXCEPT !.recs = ClickedAsStr(@)]
    /\ Section("ctr_version", "geo", [ctr |-> ctr(recs')])
    /\ Show(<<Header("Recommendation CTR by Algorithm Version"), Chart("fig4")>>)
    /\ UNCHANGED <<app, alt, cache, reads, users, watch, movies, exclude_outliers, prev>>

\* recs['was_clicked'] is replaced by its strings in the table main holds; the chart is
\* drawn whatever the number of rows of recs
CtrByAlgorithmVersion ==
    /\ recs' = ClickedAsStr(recs)
    /\ Section("ctr_version", "geo", [ctr |-> ctr(recs')])
    /\ Show(<<Header("Recommendation CTR by Algorithm Version"), Chart("fig4")>>)
    /\ UNCHANGED <<app, csv, alt, cache, reads, users, watch, movies, exclude_outliers, prev>>

\* the map of the mean spend per country and the monthly minutes per content type read
\* columns (country, watch_date, content_type) that the tables of this model do not
\* carry: the two sections are kept by what they put on the page
GeographicDistribution ==
    /\ Section("geo", "trends", NoOutput)
    /\ Show(<<Header("Geographic Distribution of High-Value Users"), Chart("fig5")>>)
    /\ UNCHANGED <<app, csv, alt, cache, reads, users, watch, movies, recs, exclude_outliers, prev>>

ContentTypeTrends ==
    /\ Section("trends", "device", NoOutput)
    /\ Show(<<Header("Content Type Trends Over Time"), Chart("fig10")>>)
    /\ UNCHANGED <<app, csv, alt, cache, reads, users, watch, movies, recs, exclude_outliers, prev>>

EngagementByDevice ==
    /\ Section("device", "sessions", [device_eng |-> device_eng(watch)])
    /\ Show(<<Header("Engagement by Device Type"), Chart("fig_device")>>)
    /\ UNCHANGED <<app, csv, alt, cache, reads, users, watch, movies, recs, exclude_outliers, prev>>

DeviceSessions ==
    /\ LET sess == sess_of(watch)
           sess_f == sess_f_of(sess, exclude_outliers)
       IN  Section("sessions", "sat_device",
                   [sess |-> sess,
                    sess_f |-> sess_f,
                    box_title |-> IF exclude_outliers
                                  THEN "Session duration by device (IQR shown)"
                                  ELSE "Session duration by device (raw)",
                    med_all |-> GroupQuantile4(sess, 2),
                    med_f |-> GroupQuantile4(sess_f, 2),
                    qstats |-> [Q1 |-> GroupQuantile4(sess_f, 1),
                                Median |-> GroupQuantile4(sess_f, 2),
                                Q3 |-> GroupQuantile4(sess_f, 3)]])
    /\ Show(<<Subheader("Device session duration distribution (median & IQR)"),
              Chart("fig_box"), Chart("fig_med"), Dataframe("qstats")>>)
    /\ UNCHANGED <<app, csv, alt, cache, reads, users, watch, movies, recs, exclude_outliers, prev>>

\* if not watch_rated.empty: ... st.plotly_chart(fig_sat) else: st.info(...)
SatisfactionByDevice ==
    /\ Section("sat_device", "plan_eng",
               IF watch_rated(watch) # <<>> THEN [device_sat |-> device_sat(watch)]
               ELSE NoOutput)
    /\ Show(<<Header("Satisfaction by Device Type"),
              IF watch_rated(watch) # <<>> THEN Chart("fig_sat")
              ELSE Info("No user ratings available for device analysis.")>>)
    /\ UNCHANGED <<app, csv, alt, cache, reads, users, watch, movies, recs, exclude_outliers, prev>>

EngagementByPlan ==
    /\ Section("plan_eng", "sat_plan", [watch_user |-> watch_user(watch, UserIds)])
    /\ Show(<<Header("Engagement by Subscription Plan"), Chart("fig_plan")>>)
    /\ UNCHANGED <<app, csv, alt, cache, reads, users, watch, movies, recs, exclude_outliers, prev>>

SatisfactionByPlan ==
    /\ Section("sat_plan", "genre_eng",
               IF watch_rated(watch) # <<>> THEN [plan_sat |-> plan_sat(users, watch)]
               ELSE NoOutput)
    /\ Show(<<Header("Satisfaction by Subscription Plan"),
              IF watch_rated(watch) # <<>> THEN Chart("fig_plan_sat")
              ELSE Info("No user ratings available for plan analysis.")>>)
    /\ UNCHANGED <<app, csv, alt, cache, reads, users, watch, movies, recs, exclude_outliers, prev>>

EngagementByGenre ==
    /\ Section("genre_eng", "sat_genre", [genre_eng |-> genre_eng(watch, movies)])
    /\ Show(<<Header("Engagement by Genre"), Chart("fig_genre")>>)
    /\ UNCHANGED <<app, csv, alt, cache, reads, users, watch, movies, recs, exclude_outliers, prev>>

SatisfactionByGenre ==
    /\ Section("sat_genre", "ctr_type",
               IF watch_rated(watch) # <<>> THEN [genre_sat |-> genre_sat(watch, movies)]
               ELSE NoOutput)
    /\ Show(<<Header("Satisfaction by Genre"),
              IF watch_rated(watch) # <<>> THEN Chart("fig_genre_sat")
              ELSE Info("No user ratings available for genre analysis.")>>)
    /\ UNCHANGED <<app, csv, alt, cache, reads, users, watch, movies, recs, exclude_outliers, prev>>

\* variant of CtrByType: the header is written inside the guard
CtrByTypeHeaderGuarded ==
    /\ recs' = IF recs # <<>> THEN ClickedAsStr(recs) ELSE recs
    /\ Section("ctr_type", "summary",
               IF recs # <<>> THEN [rec_summary |-> rec_summary(recs')]
               ELSE [rec_info |-> "No recommendation logs available to analyze."])
    /\ Show(IF recs # <<>>
            THEN <<Header("Recommendation Click-Through Rate by Type"), Chart("fig_rec")>>
            ELSE <<Info("No recommendation logs available to analyze.")>>)
    /\ UNCHANGED <<app, csv, alt, cache, reads, users, watch, movies, exclude_outliers, prev>>

\* if not recs.empty: ... st.plotly_chart(fig_rec) else: st.info(...)
CtrByType ==
    /\ recs' = IF recs # <<>> THEN ClickedAsStr(recs) ELSE recs
    /\ Section("ctr_type", "summary",
               IF recs # <<>> THEN [rec_summary |-> rec_summary(recs')]
               ELSE [rec_info |-> "No recommendation logs available to analyze."])
    /\ Show(<<Header("Recommendation Click-Through Rate by Type"),
              IF recs # <<>> THEN Chart("fig_rec")
              ELSE Info("No recommendation logs available to analyze.")>>)
    /\ UNCHANGED <<app, csv, alt, cache, reads, users, watch, movies, exclude_outliers, prev>>

Summary ==
    /\ Section("summary", "done", NoOutput)
    /\ Show(<<Header("Summary & Insights")>>)
    /\ UNCHANGED <<app, csv, alt, cache, reads, users, watch, movies, recs, exclude_outliers, prev>>

\* the user flips "Exclude outliers (per-device IQR)": the script runs again from the top
\* on a fresh page
ToggleCheckbox ==
    /\ app = "engagement"
    /\ pc = "done"
    /\ exclude_outliers' = ~exclude_outliers
    /\ pc' = "load"
    /\ prev' = out
    /\ out' = NoOutput
    /\ page' = <<>>
    /\ UNCHANGED <<app, csv, alt, cache, reads, users, watch, movies, recs>>

NextEngagement ==
    \/ LoadData
    \/ KPIs
    \/ RetentionByPlan
    \/ SpendVsEngagement
    \/ GenrePopularity
    \/ CtrByAlgorithmVersion
    \/ GeographicDistribution
    \/ ContentTypeTrends
    \/ EngagementByDevice
    \/ DeviceSessions
    \/ SatisfactionByDevice
    \/ EngagementByPlan
    \/ SatisfactionByPlan
    \/ EngagementByGenre
    \/ SatisfactionByGenre
    \/ CtrByType
    \/ Summary
    \/ ToggleCheckbox

InitRun(a, files) ==
    /\ app = a
    /\ csv = files
    /\ alt = <<>>
    /\ cache = <<>>
    /\ users = <<>>
    /\ watch = <<>>
    /\ movies = <<>>
    /\ recs = <<>>
    /\ exclude_outliers = TRUE
    /\ pc = "load"
    /\ out = NoOutput
    /\ reads = 0
    /\ page = <<>>
    /\ prev = NoOutput

\* the watch history varies
InitWatch ==
    \E w \in Tables(SessionRows, MaxWatch) :
        InitRun("engagement",
                [users |-> SampleUsers, watch |-> w, movies |-> SampleMovies,
                 recs |-> SampleRecs])

SpecWatch == InitWatch /\ [][NextEngagement]_vars

\* the users table varies
FlagCells == <<PyTrue, PyFalse, NaN>>
PlanCells == <<"Basic", "Premium", NaN>>

UserRows ==
    [j \in 1 .. 2 * Len(PlanCells) * Len(FlagCells) |->
        UserRow(UserIds[((j - 1) \div (Len(PlanCells) * Len(FlagCells))) + 1],
                PlanCells[(((j - 1) \div Len(FlagCells)) % Len(PlanCells)) + 1],
                Num(8),
                FlagCells[((j - 1) % Len(FlagCells)) + 1])]

InitUsers ==
    \E u \in Tables(UserRows, MaxUsers) :
        InitRun("engagement",
                [users |-> u, watch |-> SampleWatch, movies |-> SampleMovies,
                 recs |-> SampleRecs])

SpecUsers == InitUsers /\ [][NextEngagement]_vars

\* the recommendation log varies
IdCells == <<"r1", NaN>>

RecRows ==
    [j \in 1 .. Len(IdCells) * Len(Versions) * Len(RecTypes) * Len(FlagCells) |->
        RecRow(IdCells[((j - 1) \div (Len(Versions) * Len(RecTypes) * Len(FlagCells))) + 1],
               Versions[(((j - 1) \div (Len(RecTypes) * Len(FlagCells))) % Len(Versions)) + 1],
               RecTypes[(((j - 1) \div Len(FlagCells)) % Len(RecTypes)) + 1],
               FlagCells[((j - 1) % Len(FlagCells)) + 1])]

InitRecs ==
    \E r \in Tables(RecRows, MaxRecs) :
        InitRun("engagement",
                [users |-> SampleUsers, watch |-> SampleWatch, movies |-> SampleMovies,
                 recs |-> r])

SpecRecs == InitRecs /\ [][NextEngagement]_vars

\* the watch history and the movies table vary together
MovieIds == <<"m1", "m2">>
GenreCells == <<"Action", "Drama", NaN>>
JoinDurationCells == <<Num(1), Num(5)>>

JoinWatchRows ==
    [j \in 1 .. Len(MovieIds) * Len(JoinDurationCells) |->
        WatchRow("u1", MovieIds[((j - 1) \div Len(JoinDurationCells)) + 1], "TV",
                 JoinDurationCells[((j - 1) % Len(JoinDurationCells)) + 1])]

MovieRows ==
    [j \in 1 .. Len(MovieIds) * Len(GenreCells) |->
        MovieRow(MovieIds[((j - 1) \div Len(GenreCells)) + 1],
                 GenreCells[((j - 1) % Len(GenreCells)) + 1])]

InitJoin ==
    \E w \in Tables(JoinWatchRows, MaxJoinWatch) :
      \E m \in Tables(MovieRows, MaxMovies) :
        InitRun("engagement",
                [users |-> SampleUsers, watch |-> w, movies |-> m, recs |-> SampleRecs])

SpecJoin == InitJoin /\ [][NextEngagement]_vars

(***************************************************************************)
(* The story dashboard: load_data and the aggregates of main().            *)
(***************************************************************************)
story_load_data(files) ==
    [users |-> LoadUsers(files.users), watch |-> LoadWatch(files.watch),
     movies |-> LoadMovies(files.movies), recs |-> <<>>]

\* watch.groupby('user_id')['watch_duration_minutes'].sum(), left-merged onto users,
\* a user with no watch event getting 0
user_engagement(u, w) ==
    LET totals == GroupSum(w, "user_id", UserIds)
        TotalOf(id) ==
            IF \E j \in DOMAIN totals : totals[j].key = id
            THEN (CHOOSE r \in Range(totals) : r.key = id).watch_duration_minutes
            ELSE 0
    IN  [i \in DOMAIN u |->
            [idx |-> u[i].idx, user_id |-> u[i].user_id,
             subscription_plan |-> u[i].subscription_plan,
             monthly_spend |-> u[i].monthly_spend, is_active |-> u[i].is_active,
             total_watch_minutes |-> TotalOf(u[i].user_id)]]

\* rows whose total is above the 0.75 quantile of the totals (none when there is no row)
high_engagement(ue) ==
    IF ue = <<>> THEN <<>>
    ELSE LET q == Quantile4(Column(ue, "total_watch_minutes"), 3)
         IN  SelectSeq(ue, LAMBDA r : 4 * r.total_watch_minutes > q)

\* Series.median() of monthly_spend, times 4; missing when no spend is known
MedianSpend4(t) ==
    LET known == DropNaCells(Column(t, "monthly_spend"))
    IN  IF known = <<>> THEN <<>> ELSE <<Quantile4(known, 2)>>

\* rows whose spend is below the median spend of t; a comparison with a missing value is False
BelowMedianSpend(t) ==
    LET m == MedianSpend4(t)
    IN  SelectSeq(t, LAMBDA r : r.monthly_spend # <<>> /\ m # <<>>
                                /\ 4 * r.monthly_spend[1] < m[1])

\* user_engagement.dropna(subset=['monthly_spend'])
user_engagement_clean(ue) == SelectSeq(ue, LAMBDA r : r.monthly_spend # <<>>)

\* pd.cut(monthly_spend, bins=[0, 5, 10, 15, 100], labels=[...]): intervals open on the left
\* and closed on the right; a value in none of them gets no bracket
SpendBins == <<0, 5, 10, 15, 100>>
SpendLabels == <<"$0-5", "$5-10", "$10-15", "$15+">>

spend_bracket(v) ==
    IF \E j \in DOMAIN SpendLabels : SpendBins[j] < v /\ v <= SpendBins[j + 1]
    THEN SpendLabels[CHOOSE j \in DOMAIN SpendLabels : SpendBins[j] < v /\ v <= SpendBins[j + 1]]
    ELSE NaN

\* pd.qcut(total_watch_minutes, q=4, labels=[...], duplicates='drop'): the bin edges are the
\* quantiles 0, 1/4, 1/2, 3/4, 1 (times 4 here)
LevelLabels == <<"Low", "Medium", "High", "Very High">>

QcutEdges4(t) == [k \in 1 .. 5 |-> Quantile4(Column(t, "total_watch_minutes"), k - 1)]

\* with no row, or with two equal edges (dropped), the labels no longer fit the bins and
\* pd.qcut raises ValueError
QcutRaises(t) ==
    \/ t = <<>>
    \/ \E k \in 1 .. 4 : QcutEdges4(t)[k] = QcutEdges4(t)[k + 1]

engagement_level(v, edges) ==
    LevelLabels[CHOOSE j \in 1 .. 4 :
                    /\ 4 * v <= edges[j + 1]
                    /\ \A i \in 1 .. (j - 1) : 4 * v > edges[i + 1]]

retention_df(ue) ==
    LET c == user_engagement_clean(ue)
        e == QcutEdges4(c)
    IN  [i \in DOMAIN c |->
            [user_id |-> c[i].user_id, is_active |-> c[i].is_active,
             monthly_spend |-> c[i].monthly_spend,
             total_watch_minutes |-> c[i].total_watch_minutes,
             spend_bracket |-> spend_bracket(c[i].monthly_spend[1]),
             engagement_level |-> engagement_level(c[i].total_watch_minutes, e)]]

\* n / d rounded to an integer, halves to the even neighbour (n >= 0, d > 0)
RoundHalfEven(n, d) ==
    LET q == n \div d
        r == n % d
    IN  IF 2 * r < d THEN q
        ELSE IF 2 * r > d THEN q + 1
        ELSE IF q % 2 = 0 THEN q ELSE q + 1

\* variant of CellRate: the sum and the count taken for each other
CellRateSwapped(active_count, total_count) ==
    IF active_count = 0 THEN <<>> ELSE <<RoundHalfEven(1000 * total_count, active_count)>>

\* (active_count / total_count * 100).round(1), in tenths of a percent; missing (the NaN
\* of 0 / 0) when the cell counts no flag
CellRate(active_count, total_count) ==
    IF total_count = 0 THEN <<>> ELSE <<RoundHalfEven(1000 * active_count, total_count)>>

\* groupby(['engagement_level', 'spend_bracket']).agg({'is_active': ['sum', 'count']}):
\* one row per pair of categories; count leaves out the missing flags
retention_matrix(rdf) ==
    [c \in 1 .. Len(LevelLabels) * Len(SpendLabels) |->
        LET lvl == LevelLabels[((c - 1) \div Len(SpendLabels)) + 1]
            br == SpendLabels[((c - 1) % Len(SpendLabels)) + 1]
            cell == SelectSeq(rdf, LAMBDA r : r.engagement_level = lvl /\ r.spend_bracket = br)
            active_count == Len(SelectSeq(cell, LAMBDA r : r.is_active = PyTrue))
            total_count == Len(SelectSeq(cell, LAMBDA r : r.is_active # NaN))
        IN  [engagement_level |-> lvl, spend_bracket |-> br,
             active_count |-> active_count, total_count |-> total_count,
             retention_rate |-> CellRate(active_count, total_count)]]

\* rows of user_engagement_clean above the 0.75 quantile of its totals and below the
\* median of its spends
target_segment(ue) ==
    LET c == user_engagement_clean(ue)
    IN  IF c = <<>> THEN <<>>
        ELSE LET q == Quantile4(Column(c, "total_watch_minutes"), 3)
                 m == MedianSpend4(c)
             IN  SelectSeq(c, LAMBDA r : /\ 4 * r.total_watch_minutes > q
                                         /\ 4 * r.monthly_spend[1] < m[1])

\* retention_df.groupby('spend_bracket').agg({'user_id': 'count', 'total_watch_minutes':
\* 'mean', 'monthly_spend': 'mean', 'is_active': 'mean'}): one row per bracket, means as
\* <<sum, count>>; a row of retention_df without a bracket is in no group
spend_brackets(rdf) ==
    [b \in DOMAIN SpendLabels |->
        LET g == SelectSeq(rdf, LAMBDA r : r.spend_bracket = SpendLabels[b])
            user_count == Len(SelectSeq(g, LAMBDA r : r.user_id # NaN))
            spends == DropNaCells(Column(g, "monthly_spend"))
        IN  [spend_bracket |-> SpendLabels[b],
             user_count |-> user_count,
             avg_watch_minutes |-> <<SumSeq(Column(g, "total_watch_minutes")), Len(g)>>,
             avg_spend |-> <<SumSeq(spends), Len(spends)>>,
             retention |-> <<Len(SelectSeq(g, LAMBDA r : r.is_active = PyTrue)),
                             Len(SelectSeq(g, LAMBDA r : r.is_active # NaN))>>,
             potential_revenue |-> <<user_count * SumSeq(spends), Len(spends)>>]]

(***************************************************************************)
(* A run of main() of the story dashboard.  An exception ends the run.     *)
(***************************************************************************)
StorySection(from, to, results) ==
    /\ app = "story"
    /\ pc = from
    /\ pc' = to
    /\ out' = results @@ out

StoryLoadData ==
    /\ app = "story"
    /\ pc = "load"
    /\ cache' = IF cache = <<>> THEN <<story_load_data(csv)>> ELSE cache
    /\ reads' = IF cache = <<>> THEN reads + 1 ELSE reads
    /\ users' = cache'[1].users
    /\ watch' = cache'[1].watch
    /\ movies' = cache'[1].movies
    /\ pc' = "user_engagement"
    /\ Show(<<Call("load_data")>>)
    /\ UNCHANGED <<app, csv, alt, recs, exclude_outliers, out, prev>>

UserEngagement ==
    /\ StorySection("user_engagement", "metrics",
                    [user_engagement |-> user_engagement(users, watch)])
    /\ Show(<<Header("Problem: The Data Suggests a Disconnect")>>)
    /\ UNCHANGED <<app, csv, alt, cache, reads, users, watch, movies, recs, exclude_outliers, prev>>

\* pct = len(high_eng_low_spend) / len(high_engagement) * 100
HighEngagementMetric ==
    /\ app = "story"
    /\ pc = "metrics"
    /\ LET he == high_engagement(out.user_engagement)
           low == BelowMedianSpend(he)
       IN  IF Len(he) = 0
           THEN /\ StorySection("metrics", "crashed", [error |-> "ZeroDivisionError"])
                /\ Show(<<>>)
           ELSE /\ StorySection("metrics", "deep_dive",
                                [high_engagement |-> he,
                                 high_eng_low_spend |-> low,
                                 pct |-> <<100 * Len(low), Len(he)>>,
                                 median_spend |-> MedianSpend4(out.user_engagement)])
                /\ Show(<<Metric("High Engagement, Low Spend"),
                          Metric("Median Monthly Spend"),
                          Metric("Avg Spend (Top Watchers)")>>)
    /\ UNCHANGED <<app, csv, alt, cache, reads, users, watch, movies, recs, exclude_outliers, prev>>

DeepDive ==
    /\ app = "story"
    /\ pc = "deep_dive"
    /\ StorySection("deep_dive", "retention_matrix",
                    [target_segment |-> target_segment(out.user_engagement)])
    /\ Show(<<Header("Deep Dive: Who Are These High-Engagement, Low-Spend Users?")>>)
    /\ UNCHANGED <<app, csv, alt, cache, reads, users, watch, movies, recs, exclude_outliers, prev>>

RetentionMatrix ==
    /\ app = "story"
    /\ pc = "retention_matrix"
    /\ LET c == user_engagement_clean(out.user_engagement)
       IN  IF QcutRaises(c)
           THEN /\ StorySection("retention_matrix", "crashed", [error |-> "ValueError"])
                /\ Show(<<>>)
           ELSE /\ StorySection("retention_matrix", "spend_brackets",
                                [retention_df |-> retention_df(out.user_engagement),
                                 retention_matrix |->
                                     retention_matrix(retention_df(out.user_engagement))])
                /\ Show(<<Chart("fig_heatmap")>>)
    /\ UNCHANGED <<app, csv, alt, cache, reads, users, watch, movies, recs, exclude_outliers, prev>>

SpendBrackets ==
    /\ app = "story"
    /\ pc = "spend_brackets"
    /\ StorySection("spend_brackets", "done",
                    [spend_brackets |-> spend_brackets(out.retention_df)])
    /\ Show(<<Chart("fig_opportunity")>>)
    /\ UNCHANGED <<app, csv, alt, cache, reads, users, watch, movies, recs, exclude_outliers, prev>>

\* the page is opened again in the same server process: the script runs from the top
StoryRerun ==
    /\ app = "story"
    /\ pc \in {"done", "crashed"}
    /\ pc' = "load"
    /\ out' = NoOutput
    /\ page' = <<>>
    /\ UNCHANGED <<app, csv, alt, cache, reads, users, watch, movies, recs, exclude_outliers, prev>>

NextStory ==
    \/ StoryLoadData
    \/ UserEngagement
    \/ HighEngagementMetric
    \/ DeepDive
    \/ RetentionMatrix
    \/ SpendBrackets
    \/ StoryRerun

\* the users table varies, and with it what each user has watched
StoryUserCells ==
    <<[s |-> Num(4), a |-> PyTrue], [s |-> Num(4), a |-> PyFalse], [s |-> Num(4), a |-> NaN],
      [s |-> Num(12), a |-> PyTrue], [s |-> Num(12), a |-> PyFalse], [s |-> Empty, a |-> PyTrue]>>

StoryMinutes == {0, 4, 8}

RECURSIVE StoryWatch(_, _)
StoryWatch(h, i) ==
    IF i > Len(h) THEN <<>>
    ELSE (IF h[i] = 0 THEN <<>> ELSE <<WatchRow(UserIds[i], "m1", "TV", Num(h[i]))>>)
         \o StoryWatch(h, i + 1)

InitStory ==
    \E u \in Tables(StoryUserCells, MaxStoryUsers) :
      \E h \in [DOMAIN u -> StoryMinutes] :
        InitRun("story",
                [users |-> [i \in DOMAIN u |-> UserRow(UserIds[i], "Basic", u[i].s, u[i].a)],
                 watch |-> StoryWatch(h, 1),
                 movies |-> SampleMovies,
                 recs |-> <<>>])

SpecStory == InitStory /\ [][NextStory]_vars

(***************************************************************************)
(* Two runs of the outlier trim side by side: load_data, the dropna and    *)
(* the grouped _iqr_filter applied to the watch history and to a second    *)
(* watch history that has the same rows for one device.                    *)
(***************************************************************************)
PairDurationCells == <<Num(0), Num(1), Num(5)>>

PairRows ==
    [j \in 1 .. Len(DeviceCells) * Len(PairDurationCells) |->
        WatchRow("u1", "m1", DeviceCells[((j - 1) \div Len(PairDurationCells)) + 1],
                 PairDurationCells[((j - 1) % Len(PairDurationCells)) + 1])]

TrimBoth ==
    /\ app = "trim"
    /\ pc = "load"
    /\ pc' = "compared"
    /\ LET s1 == sess_of(LoadWatch(csv.watch))
           s2 == sess_of(LoadWatch(alt))
       IN  out' = [sess |-> s1, sess_f |-> sess_f_of(s1, exclude_outliers),
                   sess_alt |-> s2, sess_f_alt |-> sess_f_of(s2, exclude_outliers)]
    /\ UNCHANGED <<app, csv, alt, cache, reads, users, watch, movies, recs, exclude_outliers,
                   page, prev>>

InitPair ==
    \E w \in Tables(PairRows, MaxWatch) :
      \E d \in Range(Devices) :
        \E o \in Tables(SelectSeq(PairRows, LAMBDA r : r.device_type # d), MaxOther) :
            /\ app = "trim"
            /\ csv = [users |-> SampleUsers, watch |-> w, movies |-> SampleMovies,
                      recs |-> SampleRecs]
            /\ alt = o \o Group(w, "device_type", d)
            /\ cache = <<>>
            /\ users = <<>>
            /\ watch = <<>>
            /\ movies = <<>>
            /\ recs = <<>>
            /\ exclude_outliers = TRUE
            /\ pc = "load"
            /\ out = NoOutput
            /\ reads = 0
            /\ page = <<>>
            /\ prev = NoOutput

NextPair == TrimBoth

SpecPair == InitPair /\ [][NextPair]_vars

(***************************************************************************)
(* Runs of both dashboards over CSV files whose numeric columns hold       *)
(* numbers, empty cells and text that is no number.                        *)
(***************************************************************************)
CoerceCells == <<Num(5), Empty, Bad>>

CoerceUserCells ==
    [j \in 1 .. Len(CoerceCells) * Len(CoerceCells) |->
        [s |-> CoerceCells[((j - 1) \div Len(CoerceCells)) + 1],
         a |-> CoerceCells[((j - 1) % Len(CoerceCells)) + 1]]]

CoerceWatchRows == [j \in DOMAIN CoerceCells |-> WatchRow("u1", "m1", "TV", CoerceCells[j])]

InitCoerce ==
    \E a \in {"engagement", "story"} :
      \E u \in Tables(CoerceUserCells, MaxCoerce) :
        \E w \in Tables(CoerceWatchRows, MaxCoerce) :
            InitRun(a,
                    [users |-> [i \in DOMAIN u |->
                                    [UserRow(UserIds[i], "Basic", u[i].s, PyTrue)
                                        EXCEPT !.age = u[i].a]],
                     watch |-> w,
                     movies |-> SampleMovies,
                     recs |-> IF a = "engagement" THEN SampleRecs ELSE <<>>])

SpecCoerce == InitCoerce /\ [][NextEngagement \/ NextStory]_vars

(***************************************************************************)
(* Runs of the engagement dashboard over watch histories whose events      *)
(* carry a rating or none.                                                 *)
(***************************************************************************)
RatingCells == <<<<>>, <<2>>, <<5>>>>
RatedUsers == <<"u1", "u3">>
RatedDevices == <<"TV", NaN>>

RatedRows ==
    [j \in 1 .. Len(RatedUsers) * Len(RatedDevices) * Len(RatingCells) |->
        [WatchRow(RatedUsers[((j - 1) \div (Len(RatedDevices) * Len(RatingCells))) + 1],
                  "m1",
                  RatedDevices[(((j - 1) \div Len(RatingCells)) % Len(RatedDevices)) + 1],
                  Num(5))
            EXCEPT !.user_rating = RatingCells[((j - 1) % Len(RatingCells)) + 1]]]

InitRated ==
    \E w \in Tables(RatedRows, MaxRated) :
        InitRun("engagement",
                [users |-> SampleUsers, watch |-> w, movies |-> SampleMovies,
                 recs |-> SampleRecs])

SpecRated == InitRated /\ [][NextEngagement]_vars

(***************************************************************************)
(* Runs of the story dashboard over users whose monthly spend lies inside, *)
(* on the edge of and outside the bins of the spend brackets.              *)
(***************************************************************************)
BracketSpendCells == <<Num(0), Num(4), Num(12), Num(120), Empty>>

InitBrackets ==
    \E u \in Tables(BracketSpendCells, MaxBracketUsers) :
      \E h \in [DOMAIN u -> StoryMinutes] :
        InitRun("story",
                [users |-> [i \in DOMAIN u |-> UserRow(UserIds[i], "Basic", u[i], PyTrue)],
                 watch |-> StoryWatch(h, 1),
                 movies |-> SampleMovies,
                 recs |-> <<>>])

SpecBrackets == InitBrackets /\ [][NextStory]_vars

\* runs of the engagement dashboard over the recommendation logs and over the rated
\* watch histories: every guard of main is taken both ways
SpecSections == (InitRecs \/ InitRated) /\ [][NextEngagement]_vars

(***************************************************************************)
(* All runs together.                                                      *)
(***************************************************************************)
Init ==
    \/ InitWatch
    \/ InitUsers
    \/ InitRecs
    \/ InitJoin
    \/ InitStory
    \/ InitPair
    \/ InitCoerce
    \/ InitRated
    \/ InitBrackets

Next == NextEngagement \/ NextStory \/ NextPair

Spec == Init /\ [][Next]_vars

(***************************************************************************)
(* C1.  With 'Exclude outliers' checked, a session row is in sess_f if and *)
(* only if its duration v satisfies Q1 - 1.5*IQR <= v <= Q3 + 1.5*IQR for  *)
(* the quartiles Q1, Q3 of the durations of its own device group           *)
(* (compared after multiplying by 8; Quantile4 is four times a quartile).  *)
(***************************************************************************)
GroupDurations(s, d) == Column(Group(s, "device_type", d), "watch_duration_minutes")

InsideFence(v, durations) ==
    LET Q1 == Quantile4(durations, 1)
        Q3 == Quantile4(durations, 3)
    IN  /\ 2 * Q1 - 3 * (Q3 - Q1) <= 8 * v
        /\ 8 * v <= 2 * Q3 + 3 * (Q3 - Q1)

KeptIn(s, r) == \E j \in DOMAIN s : s[j].idx = r.idx

C1_KeptIffInsideFence ==
    ("sess_f" \in DOMAIN out /\ app = "engagement" /\ exclude_outliers) =>
        \A i \in DOMAIN out.sess :
            KeptIn(out.sess_f, out.sess[i]) <=>
                InsideFence(out.sess[i].watch_duration_minutes,
                            GroupDurations(out.sess, out.sess[i].device_type))

\* a run with the box checked in which one row of a device is dropped and another
\* row of the same device, lying on the fence or inside it, is kept
C1_Witness ==
    /\ "sess_f" \in DOMAIN out
    /\ app = "engagement"
    /\ exclude_outliers
    /\ \E i, j \in DOMAIN out.sess :
         /\ out.sess[i].device_type = out.sess[j].device_type
         /\ ~KeptIn(out.sess_f, out.sess[i])
         /\ KeptIn(out.sess_f, out.sess[j])

(***************************************************************************)
(* C2.  Two watch histories with the same rows for device d have the same  *)
(* surviving rows of device d after the trim, whatever the rows of the     *)
(* other devices are.                                                      *)
(***************************************************************************)
C2_TrimPerDeviceOnly ==
    pc = "compared" =>
        \A d \in Range(Devices) :
            GroupDurations(out.sess, d) = GroupDurations(out.sess_alt, d) =>
                GroupDurations(out.sess_f, d) = GroupDurations(out.sess_f_alt, d)

\* two histories that agree on device d, differ elsewhere, and lose a row of d in the trim
C2_Witness ==
    /\ pc = "compared"
    /\ \E d \in Range(Devices) :
         /\ GroupDurations(out.sess, d) = GroupDurations(out.sess_alt, d)
         /\ Len(GroupDurations(out.sess_f, d)) < Len(GroupDurations(out.sess, d))
         /\ Len(GroupDurations(out.sess_f, d)) > 0
         /\ \E e \in Range(Devices) :
              e # d /\ GroupDurations(out.sess, e) # GroupDurations(out.sess_alt, e)

(***************************************************************************)
(* C3.  Every retention rate of 'Retention by Subscription Plan' lies in   *)
(* [0,1]: its denominator is positive and its numerator is between 0 and   *)
(* the denominator.                                                        *)
(***************************************************************************)
InUnitInterval(q) == q[2] > 0 /\ 0 <= q[1] /\ q[1] <= q[2]

C3_RetentionRateInUnitInterval ==
    "retention_rate" \in DOMAIN out =>
        \A p \in DOMAIN out.retention_rate : InUnitInterval(out.retention_rate[p])

\* a plan with an active user, a user that is not active and a user with no flag
C3_Witness ==
    /\ "retention_rate" \in DOMAIN out
    /\ \E p \in DOMAIN out.retention_rate :
         /\ 0 < out.retention_rate[p][1]
         /\ out.retention_rate[p][1] < out.retention_rate[p][2]
         /\ \E i \in DOMAIN users : users[i].subscription_plan = p /\ users[i].is_active = NaN

(***************************************************************************)
(* C5.  Every click-through rate, per algorithm_version and per            *)
(* recommendation_type, lies in [0,1].                                     *)
(***************************************************************************)
C5_CtrInUnitInterval ==
    /\ "ctr" \in DOMAIN out =>
          \A i \in DOMAIN out.ctr : InUnitInterval(out.ctr[i].CTR)
    /\ "rec_summary" \in DOMAIN out =>
          \A i \in DOMAIN out.rec_summary : InUnitInterval(out.rec_summary[i].ctr)

(***************************************************************************)
(* C6.  For every recommendation_type the CTR equals the clicked log rows  *)
(* of the type divided by the log rows of the type, the rule of the        *)
(* per-algorithm_version CTR.                                              *)
(***************************************************************************)
C6_CtrByTypeIsClickedOverRows ==
    "rec_summary" \in DOMAIN out =>
        \A i \in DOMAIN out.rec_summary :
            LET g == Group(recs, "recommendation_type", out.rec_summary[i].recommendation_type)
                q == out.rec_summary[i].ctr
            IN  q[2] > 0 /\ q[1] * Len(g) = Clicks(g) * q[2]

(***************************************************************************)
(* C7.  For every plan the retention rate equals the users of the plan     *)
(* flagged active divided by the users of the plan.                        *)
(***************************************************************************)
C7_RetentionIsActiveOverUsers ==
    "retention_rate" \in DOMAIN out =>
        \A p \in DOMAIN out.retention_rate :
            LET g == Group(users, "subscription_plan", p)
                q == out.retention_rate[p]
            IN  q[1] * Len(g) = active_subs(g) * q[2]

(***************************************************************************)
(* C8.  The per-device totals of 'Engagement by Device Type' add up to the *)
(* total of watch_duration_minutes behind the Watch Hours KPI.             *)
(***************************************************************************)
Total(t) == SumSeq(Column(t, "watch_duration_minutes"))

C8_DeviceTotalsAddUp ==
    "device_eng" \in DOMAIN out => Total(out.device_eng) = out.total_watch_hours[1]

(***************************************************************************)
(* C9.  The per-genre totals of watch minutes add up to the total of       *)
(* watch_duration_minutes.                                                 *)
(***************************************************************************)
C9_GenreTotalsAddUp ==
    /\ "genre_stats" \in DOMAIN out => Total(out.genre_stats) = out.total_watch_hours[1]
    /\ "genre_eng" \in DOMAIN out => Total(out.genre_eng) = out.total_watch_hours[1]

(***************************************************************************)
(* C10.  Every aggregate of counts or of watch minutes is non-negative.    *)
(***************************************************************************)
NonNegative(t, col) == \A i \in DOMAIN t : t[i][col] >= 0

C10_AggregatesNonNegative ==
    /\ "total_watch_hours" \in DOMAIN out =>
          /\ out.total_watch_hours[1] >= 0
          /\ out.total_users >= 0
          /\ out.active_subs >= 0
    /\ "device_eng" \in DOMAIN out => NonNegative(out.device_eng, "watch_duration_minutes")
    /\ "genre_stats" \in DOMAIN out => NonNegative(out.genre_stats, "watch_duration_minutes")
    /\ "genre_eng" \in DOMAIN out => NonNegative(out.genre_eng, "watch_duration_minutes")
    /\ "watch_user" \in DOMAIN out => NonNegative(out.watch_user, "watch_duration_minutes")
    /\ "rec_summary" \in DOMAIN out => NonNegative(out.rec_summary, "impressions")
    /\ "user_engagement" \in DOMAIN out =>
          NonNegative(out.user_engagement, "total_watch_minutes")

(***************************************************************************)
(* C4.  Every retention_rate of the retention matrix of the story          *)
(* dashboard that is not missing lies in [0,100]: it is a percentage       *)
(* (kept here in tenths of a percent), and it is missing exactly for the   *)
(* cells that count no flag.                                               *)
(***************************************************************************)
C4_RetentionRateIsPercentage ==
    "retention_matrix" \in DOMAIN out =>
        \A c \in DOMAIN out.retention_matrix :
            LET cell == out.retention_matrix[c]
            IN  IF cell.total_count = 0 THEN cell.retention_rate = <<>>
                ELSE /\ cell.retention_rate # <<>>
                     /\ 0 <= cell.retention_rate[1]
                     /\ cell.retention_rate[1] <= 1000

\* a matrix with a cell above 1 (here 50%: one of two users active), a cell at 0 and a
\* cell with no value
C4_Witness ==
    /\ "retention_matrix" \in DOMAIN out
    /\ \E c, d, e \in DOMAIN out.retention_matrix :
         /\ out.retention_matrix[c].retention_rate = <<500>>
         /\ out.retention_matrix[d].retention_rate = <<0>>
         /\ out.retention_matrix[e].retention_rate = <<>>

\* C4 as stated: every retention_rate of the matrix that is not missing lies in [0,1]
\* (10 tenths of a percent are 1)
C4_RetentionRateInUnitInterval ==
    "retention_matrix" \in DOMAIN out =>
        \A c \in DOMAIN out.retention_matrix :
            LET cell == out.retention_matrix[c]
            IN  cell.retention_rate # <<>> =>
                    (0 <= cell.retention_rate[1] /\ cell.retention_rate[1] <= 10)

(***************************************************************************)
(* C11.  Once load_data of either dashboard has returned, every watch row  *)
(* holds a number as watch_duration_minutes: the number of its CSV cell,   *)
(* or 0 when the cell is empty or does not parse; and every monthly_spend  *)
(* and age holds the number of its CSV cell, or is missing when the cell   *)
(* is empty or does not parse.  No row is lost.                            *)
(***************************************************************************)
Loaded == app \in {"engagement", "story"} /\ pc # "load"

C11_LoadCoercesCells ==
    Loaded =>
        /\ Len(watch) = Len(csv.watch)
        /\ Len(users) = Len(csv.users)
        /\ \A i \in DOMAIN watch :
              LET c == csv.watch[i].watch_duration_minutes
              IN  /\ watch[i].watch_duration_minutes \in Int
                  /\ watch[i].watch_duration_minutes = (IF c.k = "num" THEN c.v ELSE 0)
        /\ \A i \in DOMAIN users :
              \A col \in {"monthly_spend", "age"} :
                 LET c == csv.users[i][col]
                 IN  users[i][col] = (IF c.k = "num" THEN <<c.v>> ELSE <<>>)

\* a loaded run of the story dashboard whose files hold an empty and an unparseable
\* duration, an unparseable spend and an unparseable age
C11_Witness ==
    /\ Loaded
    /\ app = "story"
    /\ \E i, j \in DOMAIN csv.watch :
          /\ csv.watch[i].watch_duration_minutes = Empty
          /\ csv.watch[j].watch_duration_minutes = Bad
    /\ \E i, j \in DOMAIN csv.users :
          /\ csv.users[i].monthly_spend = Bad
          /\ csv.users[j].age = Bad

(***************************************************************************)
(* C12.  No step of a run changes the CSV files, and a run calls load_data *)
(* once: the page of a run never lists a second call, and lists one call   *)
(* as soon as the script is past load_data; this holds for every run,      *)
(* whatever the number of runs and checkbox flips before it.               *)
(***************************************************************************)
CallsOf(p) == Len(SelectSeq(p, LAMBDA e : e = Call("load_data")))

C12_LoadOnceFilesUntouched ==
    [][/\ csv' = csv
       /\ CallsOf(page') <= 1
       /\ (pc' # "load" => CallsOf(page') = 1)]_vars

\* the end of a run of the engagement dashboard that follows a flip of the checkbox
C12_Witness ==
    /\ app = "engagement"
    /\ pc = "done"
    /\ ~exclude_outliers
    /\ prev # NoOutput
    /\ CallsOf(page) = 1

(***************************************************************************)
(* C13.  load_data under its cache: the process reads the CSV files at     *)
(* most once, the cached tables are those load_data computes from the      *)
(* files, and the tables a call has just returned are those tables, also   *)
(* after an earlier run has replaced recs['was_clicked'] by strings in its *)
(* own copy.                                                               *)
(***************************************************************************)
Computed == IF app = "story" THEN story_load_data(csv) ELSE load_data(csv)

Returned == [users |-> users, watch |-> watch, movies |-> movies, recs |-> recs]

C13_LoadDataIdempotent ==
    (app \in {"engagement", "story"}) =>
        /\ reads <= 1
        /\ (cache # <<>> => cache[1] = Computed)
        /\ (pc \in {"kpis", "user_engagement"} => Returned = Computed)

\* load_data has just returned in a run after a run that turned the clicked flags of its
\* recs into strings: the returned flags are the booleans again
C13_Witness ==
    /\ app = "engagement"
    /\ pc = "kpis"
    /\ "ctr" \in DOMAIN prev
    /\ reads = 1
    /\ \E i \in DOMAIN recs : recs[i].was_clicked \in {PyTrue, PyFalse}

(***************************************************************************)
(* C14.  At the end of a run of the engagement dashboard each of the three *)
(* satisfaction sections (by device, by plan, by genre) has put on the     *)
(* page its chart and not its message when some watch event of             *)
(* watch_history.csv carries a user_rating, and its message and not its    *)
(* chart when none does.                                                   *)
(***************************************************************************)
SatisfactionSections ==
    {[chart |-> "fig_sat", info |-> "No user ratings available for device analysis."],
     [chart |-> "fig_plan_sat", info |-> "No user ratings available for plan analysis."],
     [chart |-> "fig_genre_sat", info |-> "No user ratings available for genre analysis."]}

OnPage(e) == \E i \in DOMAIN page : page[i] = e

SomeRating == \E i \in DOMAIN csv.watch : csv.watch[i].user_rating # <<>>

C14_SatisfactionChartOrInfo ==
    (app = "engagement" /\ pc = "done") =>
        \A x \in SatisfactionSections :
            /\ OnPage(Chart(x.chart)) <=> SomeRating
            /\ OnPage(Info(x.info)) <=> ~SomeRating

\* the end of a run over a watch history with events and no rating at all: the device
\* section shows its message
C14_Witness ==
    /\ app = "engagement"
    /\ pc = "done"
    /\ csv.watch # <<>>
    /\ ~SomeRating
    /\ OnPage(Info("No user ratings available for device analysis."))

(***************************************************************************)
(* C15.  At the end of a run of the engagement dashboard over an empty     *)
(* recommendation log the page holds neither the CTR chart by algorithm    *)
(* version nor the CTR chart by type, holds the message 'No recommendation *)
(* logs available to analyze.', and the run has gone on to the summary.    *)
(***************************************************************************)
C15_NoCtrChartOnEmptyRecs ==
    (app = "engagement" /\ pc = "done" /\ csv.recs = <<>>) =>
        /\ ~OnPage(Chart("fig4"))
        /\ ~OnPage(Chart("fig_rec"))
        /\ OnPage(Info("No recommendation logs available to analyze."))
        /\ OnPage(Header("Summary & Insights"))

(***************************************************************************)
(* C16.  In the story dashboard the users counted by the 'High Engagement, *)
(* Low Spend' metric are the users of the 'Deep Dive' target_segment, and  *)
(* the metric is 100 times the number of top watchers whose spend is below *)
(* the median monthly spend of all users, over the number of top watchers. *)
(***************************************************************************)
IdxOf(t) == {t[i].idx : i \in DOMAIN t}

C16_MetricMeasuresTargetSegment ==
    (app = "story" /\ "target_segment" \in DOMAIN out) =>
        /\ IdxOf(out.high_eng_low_spend) = IdxOf(out.target_segment)
        /\ out.pct =
              <<100 * Cardinality({i \in DOMAIN out.high_engagement :
                                      /\ out.high_engagement[i].monthly_spend # <<>>
                                      /\ out.median_spend # <<>>
                                      /\ 4 * out.high_engagement[i].monthly_spend[1]
                                            < out.median_spend[1]}),
                Len(out.high_engagement)>>

(***************************************************************************)
(* C17.  In every run of the engagement dashboard the call of load_data    *)
(* comes first on the page, the KPI cards come before every header, the    *)
(* headers written so far are the first headers of the source order, and   *)
(* a finished run has written all of them: the list of headers is the same *)
(* for both values of the checkbox and for both outcomes of every          *)
(* emptiness guard.                                                        *)
(***************************************************************************)
SectionOrder ==
    <<"Retention by Subscription Plan",
      "Monthly Spend vs. Engagement by Device",
      "Genre Popularity and Satisfaction",
      "Recommendation CTR by Algorithm Version",
      "Geographic Distribution of High-Value Users",
      "Content Type Trends Over Time",
      "Engagement by Device Type",
      "Device session duration distribution (median & IQR)",
      "Satisfaction by Device Type",
      "Engagement by Subscription Plan",
      "Satisfaction by Subscription Plan",
      "Engagement by Genre",
      "Satisfaction by Genre",
      "Recommendation Click-Through Rate by Type",
      "Summary & Insights">>

Titles(p) ==
    LET t == SelectSeq(p, LAMBDA e : e.kind \in {"header", "subheader"})
    IN  [i \in DOMAIN t |-> t[i].text]

C17_SectionsInSourceOrder ==
    (app = "engagement") =>
        /\ (page # <<>> => page[1] = Call("load_data"))
        /\ \A i, j \in DOMAIN page :
              (page[i].kind = "kpi" /\ page[j].kind \in {"header", "subheader"}) => i < j
        /\ Len(Titles(page)) <= Len(SectionOrder)
        /\ Titles(page) = SubSeq(SectionOrder, 1, Len(Titles(page)))
        /\ (pc = "done" => Titles(page) = SectionOrder)

\* the end of a run with the box unchecked over an empty recommendation log: the by-type
\* section has printed its message and all headers are on the page
C17_Witness ==
    /\ app = "engagement"
    /\ pc = "done"
    /\ ~exclude_outliers
    /\ csv.recs = <<>>
    /\ OnPage(Info("No recommendation logs available to analyze."))
    /\ Titles(page) = SectionOrder

(***************************************************************************)
(* C18.  With the box unchecked sess_f is sess, row for row.  At the end   *)
(* of a run that follows a flip of the checkbox, every aggregate other     *)
(* than sess_f, the title of the box plot, the filtered medians and the    *)
(* Q1/Median/Q3 table is what the run before the flip computed; the raw    *)
(* medians are among them.                                                 *)
(***************************************************************************)
TrimOutputs == {"sess_f", "box_title", "med_f", "qstats"}

C18_CheckboxChangesOnlyTrimOutputs ==
    (app = "engagement" /\ pc = "done") =>
        /\ (~exclude_outliers => out.sess_f = out.sess)
        /\ (prev # NoOutput =>
               /\ DOMAIN out = DOMAIN prev
               /\ \A f \in DOMAIN out \ TrimOutputs : out[f] = prev[f])

\* the end of a run with the box unchecked, after a run with the box checked whose trim
\* removed a row and moved a quartile of the Q1/Median/Q3 table
C18_Witness ==
    /\ app = "engagement"
    /\ pc = "done"
    /\ ~exclude_outliers
    /\ prev # NoOutput
    /\ Len(prev.sess_f) < Len(out.sess_f)
    /\ prev.qstats # out.qstats
    /\ prev.med_all = out.med_all

C20_BracketCountsCoverKnownSpend ==
    (app = "story" /\ "spend_brackets" \in DOMAIN out) =>
        /\ \A i \in DOMAIN out.retention_df :
              out.retention_df[i].spend_bracket \in Range(SpendLabels)
        /\ SumSeq(Column(out.spend_brackets, "user_count"))
              = Cardinality({i \in DOMAIN users : users[i].monthly_spend # <<>>})

(***************************************************************************)
(* C21.  In the KPI row of the engagement dashboard the number shown as    *)
(* 'Active Subscriptions' is at most the number shown as 'Users'.          *)
(***************************************************************************)
C21_ActiveSubsAtMostUsers ==
    (app = "engagement" /\ "active_subs" \in DOMAIN out) =>
        out.active_subs <= out.total_users

(***************************************************************************)
(* C22.  A run of the story dashboard over a users table with at least one *)
(* user is never ended by an exception: neither the 'High Engagement, Low  *)
(* Spend' percentage nor the assignment of the engagement levels raises.   *)
(***************************************************************************)
C22_StoryRunNeverRaises ==
    (app = "story" /\ csv.users # <<>>) => pc # "crashed"

====
